---- MODULE Spec2Model ----
(***************************************************************************)
(* Model of frug's rendering session (FrugInstance) and of the closure     *)
(* that frug::run hands to the winit event loop (src/src/lib.rs).          *)
(*                                                                         *)
(* The wgpu surface, queue and the winit event pump are external           *)
(* collaborators.  They are modelled as recording doubles: every call the  *)
(* code makes on them is appended to `calls` and counted inside            *)
(* frug_instance.surface / frug_instance.queue.  The outcome of            *)
(* Surface::get_current_texture is chosen by the environment.              *)
(***************************************************************************)
EXTENDS Integers, Sequences, FiniteSets

\* ------------------------------------------------------------------ bounds
MaxDim == 2            \* window dimensions range over 0..MaxDim
MaxBatches == 2        \* event batches (ticks) the platform starts
MaxBatchEvents == 1    \* window events delivered inside one batch

\* --------------------------------------------------------------- data model
Dims == 0..MaxDim

PhysicalSize(w, h) == [width |-> w, height |-> h]

Sizes == {PhysicalSize(w, h) : w \in Dims, h \in Dims}

IsPositive(s) == s.width > 0 /\ s.height > 0

\* pub fn create_color: the four channels are stored as given.
create_color(red, green, blue, alpha) == [r |-> red, g |-> green, b |-> blue, a |-> alpha]

\* let background_color = wgpu::Color { r: 0.0, g: 0.0, b: 0.0, a: 1.0 }
InitialBackgroundColor == create_color(0, 0, 0, 1)

\* Colors a caller may pass to set_background_color (channels 0.0 or 1.0).
Colors == {create_color(0, 0, 0, 1), create_color(0, 1, 0, 0)}

\* const INDICES: &[u16]
INDICES == <<0, 1, 4, 1, 2, 4, 2, 3, 4>>

\* const VERTICES: number of entries
VertexCount == 5

\* Variant: the index count taken from the vertex array.
num_indices_from_vertices == VertexCount

\* let num_indices = INDICES.len() as u32
num_indices == Len(INDICES)

\* Variant: culling left disabled.
RenderPipelineDescriptor_no_cull ==
    [ topology      |-> "TriangleList",
      front_face    |-> "Ccw",
      cull_mode     |-> "None",
      polygon_mode  |-> "Fill",
      depth_stencil |-> "None",
      multisample_count |-> 1,
      targets       |-> << [blend |-> "REPLACE", write_mask |-> "ALL"] >> ]

\* The descriptor passed to device.create_render_pipeline.
RenderPipelineDescriptor ==
    [ topology      |-> "TriangleList",
      front_face    |-> "Ccw",
      cull_mode     |-> "Back",
      polygon_mode  |-> "Fill",
      depth_stencil |-> "None",
      multisample_count |-> 1,
      targets       |-> << [blend |-> "REPLACE", write_mask |-> "ALL"] >> ]

\* ------------------------------------------------------------ window ids
OWN_WINDOW == 1               \* frug_instance.window.id()
OTHER_WINDOW == 2             \* any other window id the platform may report
WindowIds == {OWN_WINDOW, OTHER_WINDOW}

SurfaceErrors == {"Lost", "OutOfMemory", "Timeout", "Outdated"}
AcquireResults == {"Ok"} \cup SurfaceErrors

VARIABLES
    frug_instance,     \* the FrugInstance captured by the closure
    control_flow,      \* the event loop's ControlFlow: "Wait" or "Exit"
    event,             \* the event of the latest closure invocation
    calls,             \* calls made during the latest closure invocation / API call
    phase,             \* position of the platform event pump inside a batch
    pending_redraw,    \* windows with a redraw pending for this batch
    batch_events,      \* window events delivered in the current batch
    batches,           \* completed event batches
    callbacks,         \* invocations of the user callback window_loop
    events_handled,    \* closure invocations
    window_size,       \* physical size the platform last reported for the window
    last_accepted_size,\* inner size at construction, then the last reported
                       \* size with both dimensions positive
    last_set_color,    \* argument of the latest set_background_color call
    oom_seen,          \* a render() has failed with OutOfMemory
    renders_ok         \* render() calls that returned Ok

vars == <<frug_instance, control_flow, event, calls, phase, pending_redraw,
          batch_events, batches, callbacks, events_handled, window_size,
          last_accepted_size, last_set_color, oom_seen, renders_ok>>

\* --------------------------------------------------------- FrugInstance
\* surface.configure(&device, &config)
configure(surface, config) ==
    [surface EXCEPT !.config = config]

\* FrugInstance::new_instance for a window whose inner_size() is `size`.
new_instance(size) ==
    LET config == [width |-> size.width, height |-> size.height]
        surface == [config |-> << >>, presents |-> 0]
    IN  [ size             |-> size,
          config           |-> config,
          background_color |-> InitialBackgroundColor,
          surface          |-> configure(surface, config),
          queue            |-> [submits |-> 0],
          render_pipeline  |-> RenderPipelineDescriptor,
          num_indices      |-> num_indices ]

\* Variant: the guard written with || instead of &&.
resize_or_guard(self, new_size) ==
    IF new_size.width > 0 \/ new_size.height > 0
    THEN LET config == [self.config EXCEPT !.width = new_size.width,
                                           !.height = new_size.height]
         IN  [ self  |-> [self EXCEPT !.size = new_size,
                                      !.config = config,
                                      !.surface = configure(self.surface, config)],
               calls |-> << [op |-> "resize", new_size |-> new_size],
                            [op |-> "configure", config |-> config] >> ]
    ELSE [ self  |-> self,
           calls |-> << [op |-> "resize", new_size |-> new_size] >> ]

\* Variant: the stored size is not updated.
resize_keeps_size(self, new_size) ==
    IF new_size.width > 0 /\ new_size.height > 0
    THEN LET config == [self.config EXCEPT !.width = new_size.width,
                                           !.height = new_size.height]
         IN  [ self  |-> [self EXCEPT !.config = config,
                                      !.surface = configure(self.surface, config)],
               calls |-> << [op |-> "resize", new_size |-> new_size],
                            [op |-> "configure", config |-> config] >> ]
    ELSE [ self  |-> self,
           calls |-> << [op |-> "resize", new_size |-> new_size] >> ]

\* FrugInstance::resize
resize(self, new_size) ==
    IF new_size.width > 0 /\ new_size.height > 0
    THEN LET config == [self.config EXCEPT !.width = new_size.width,
                                           !.height = new_size.height]
         IN  [ self  |-> [self EXCEPT !.size = new_size,
                                      !.config = config,
                                      !.surface = configure(self.surface, config)],
               calls |-> << [op |-> "resize", new_size |-> new_size],
                            [op |-> "configure", config |-> config] >> ]
    ELSE [ self  |-> self,
           calls |-> << [op |-> "resize", new_size |-> new_size] >> ]

\* The command buffer render() records: one render pass, one indexed draw.
CommandBuffer(self) ==
    << [ clear        |-> self.background_color,
         pipeline     |-> self.render_pipeline,
         index_format |-> "Uint16",
         draws        |-> << [first_index |-> 0, index_count |-> self.num_indices,
                              instances |-> 1] >> ] >>

\* FrugInstance::render, `acquired` being the outcome of get_current_texture
render(self, acquired) ==
    IF acquired # "Ok"
        THEN [ self   |-> self,
               result |-> acquired,
               calls  |-> << [op |-> "render", result |-> acquired] >> ]
        ELSE LET cb == CommandBuffer(self)
             IN  [ self   |-> [self EXCEPT !.queue.submits = @ + 1,
                                           !.surface.presents = @ + 1],
                   result |-> "Ok",
                   calls  |-> << [op |-> "render", result |-> "Ok"],
                                 [op |-> "submit", buffer |-> cb],
                                 [op |-> "present"] >> ]

\* Variant: the alpha channel forced to opaque.
set_background_color_opaque(self, color) ==
    [self EXCEPT !.background_color = [color EXCEPT !.a = 1]]

\* FrugInstance::set_background_color
set_background_color(self, color) ==
    [self EXCEPT !.background_color = color]

\* ------------------------------------------------------------- events
NoSize == PhysicalSize(0, 0)

Ev(kind, window_id, wevent, size) ==
    [kind |-> kind, window_id |-> window_id, wevent |-> wevent, size |-> size]

\* Window events of the session's window report any size; those of another
\* window, which the closure drops on the window id alone, report one size.
WindowEvents ==
    {Ev("WindowEvent", w, k, NoSize) : w \in WindowIds, k \in {"CloseRequested", "Focused"}}
    \cup {Ev("WindowEvent", OWN_WINDOW, k, s) :
            k \in {"Resized", "ScaleFactorChanged"}, s \in Sizes}
    \cup {Ev("WindowEvent", OTHER_WINDOW, k, PhysicalSize(MaxDim, MaxDim)) :
            k \in {"Resized", "ScaleFactorChanged"}}

\* What one invocation of the closure yields before window_loop runs: the
\* session, the control flow it leaves, the calls made, and whether
\* window.request_redraw() was called.
Outcome(self, cf, made, redraw) ==
    [self |-> self, cf |-> cf, calls |-> made, redraw |-> redraw]

\* Variant: no arm for ScaleFactorChanged.
window_event_arm_no_scale(self, e) ==
    IF e.wevent = "CloseRequested"
    THEN Outcome(self, "Exit", << >>, FALSE)
    ELSE IF e.wevent = "Resized"
    THEN LET r == resize(self, e.size) IN Outcome(r.self, "Wait", r.calls, FALSE)
    ELSE Outcome(self, "Wait", << >>, FALSE)

\* The arm for window events whose window_id is the session's window.
window_event_arm(self, e) ==
    IF e.wevent = "CloseRequested"
    THEN Outcome(self, "Exit", << >>, FALSE)
    ELSE IF e.wevent = "Resized"
    THEN LET r == resize(self, e.size) IN Outcome(r.self, "Wait", r.calls, FALSE)
    ELSE IF e.wevent = "ScaleFactorChanged"
    THEN LET r == resize(self, e.size) IN Outcome(r.self, "Wait", r.calls, FALSE)
    ELSE Outcome(self, "Wait", << >>, FALSE)

\* Variant: Lost handled like the transient errors.
redraw_arm_lost_ignored(self, acquired) ==
    LET r == render(self, acquired)
    IN  IF r.result = "OutOfMemory"
        THEN Outcome(r.self, "Exit", r.calls, FALSE)
        ELSE Outcome(r.self, "Wait", r.calls, FALSE)

\* Variant: OutOfMemory handled like the transient errors.
redraw_arm_oom_continues(self, acquired) ==
    LET r == render(self, acquired)
    IN  IF r.result = "Lost"
        THEN LET z == resize(r.self, r.self.size)
             IN  Outcome(z.self, "Wait", r.calls \o z.calls, FALSE)
        ELSE Outcome(r.self, "Wait", r.calls, FALSE)

\* The arm for Event::RedrawRequested of the session's window.
redraw_arm(self, acquired) ==
    LET r == render(self, acquired)
    IN  IF r.result = "Ok"
        THEN Outcome(r.self, "Wait", r.calls, FALSE)
        ELSE IF r.result = "Lost"
        THEN LET z == resize(r.self, r.self.size)
             IN  Outcome(z.self, "Wait", r.calls \o z.calls, FALSE)
        ELSE IF r.result = "OutOfMemory"
        THEN Outcome(r.self, "Exit", r.calls, FALSE)
        ELSE Outcome(r.self, "Wait", r.calls, FALSE)

\* Variant: window events matched without the window_id guard.
closure_any_window(self, e, acquired) ==
    IF e.kind = "WindowEvent"
    THEN window_event_arm(self, e)
    ELSE IF e.kind = "RedrawRequested" /\ e.window_id = OWN_WINDOW
    THEN redraw_arm(self, acquired)
    ELSE IF e.kind = "MainEventsCleared"
    THEN Outcome(self, "Wait", << >>, TRUE)
    ELSE Outcome(self, "Wait", << >>, FALSE)

\* The closure passed to event_loop.run, up to the call of window_loop.
closure(self, e, acquired) ==
    IF e.kind = "WindowEvent" /\ e.window_id = OWN_WINDOW
    THEN window_event_arm(self, e)
    ELSE IF e.kind = "RedrawRequested" /\ e.window_id = OWN_WINDOW
    THEN redraw_arm(self, acquired)
    ELSE IF e.kind = "MainEventsCleared"
    THEN Outcome(self, "Wait", << >>, TRUE)
    ELSE Outcome(self, "Wait", << >>, FALSE)

\* ControlFlow::Exit is sticky: once set, what the closure writes is dropped.
sticky_exit(old, new) == IF old = "Exit" THEN "Exit" ELSE new

\* The calls of operation op among the calls cs.
CallsOf(cs, op) == SelectSeq(cs, LAMBDA c : c.op = op)

HasCall(cs, op) == CallsOf(cs, op) # << >>

\* A render() call among cs returned `result`.
Returned(cs, result) == \E i \in 1..Len(cs) : cs[i] = [op |-> "render", result |-> result]

\* One invocation of the closure on event e, window_loop() included.
Handle(e, acquired) ==
    LET c == closure(frug_instance, e, acquired)
    IN  /\ frug_instance' = c.self
        /\ control_flow' = sticky_exit(control_flow, c.cf)
        /\ event' = e
        /\ calls' = c.calls \o << [op |-> "window_loop"] >>
        /\ callbacks' = callbacks + 1
        /\ events_handled' = events_handled + 1
        /\ oom_seen' = (oom_seen \/ Returned(c.calls, "OutOfMemory"))
        /\ renders_ok' = IF Returned(c.calls, "Ok") THEN renders_ok + 1 ELSE renders_ok
        /\ UNCHANGED last_set_color

\* ----------------------------------------------------------- the platform
\* event_loop.run invokes the closure once per event.  Within a batch winit
\* emits NewEvents, the window events, MainEventsCleared, one RedrawRequested
\* per window with a pending redraw, then RedrawEventsCleared; after
\* ControlFlow::Exit it emits LoopDestroyed, either at the end of the batch or
\* at once, and never invokes the closure again.
Init ==
    /\ \E s \in Sizes :
          /\ frug_instance = new_instance(s)
          /\ window_size = s
          /\ last_accepted_size = s
    /\ control_flow = "Wait"
    /\ event = Ev("None", 0, "None", NoSize)
    /\ calls = << >>
    /\ phase = "NewEvents"
    /\ pending_redraw = {}
    /\ batch_events = 0
    /\ batches = 0
    /\ callbacks = 0
    /\ events_handled = 0
    /\ last_set_color = InitialBackgroundColor
    /\ oom_seen = FALSE
    /\ renders_ok = 0

\* Event::NewEvents opens a batch.
NewEvents ==
    /\ phase = "NewEvents"
    /\ batches < MaxBatches
    /\ Handle(Ev("NewEvents", 0, "None", NoSize), "Ok")
    /\ phase' = "Events"
    /\ batch_events' = 0
    /\ UNCHANGED <<pending_redraw, batches, window_size, last_accepted_size>>

\* A window event of the batch.  Resized and ScaleFactorChanged report the
\* new physical size of the window they target.
WindowEvent(e) ==
    /\ phase = "Events"
    /\ batch_events < MaxBatchEvents
    /\ Handle(e, "Ok")
    /\ batch_events' = batch_events + 1
    /\ IF e.window_id = OWN_WINDOW /\ e.wevent \in {"Resized", "ScaleFactorChanged"}
       THEN /\ window_size' = e.size
            /\ last_accepted_size' = IF IsPositive(e.size) THEN e.size ELSE last_accepted_size
       ELSE UNCHANGED <<window_size, last_accepted_size>>
    /\ UNCHANGED <<phase, pending_redraw, batches>>

\* Event::MainEventsCleared; the closure requests a redraw of its window and
\* the platform may have redraws pending for other windows.
MainEventsCleared(os_redraws) ==
    /\ phase = "Events"
    /\ Handle(Ev("MainEventsCleared", 0, "None", NoSize), "Ok")
    /\ pending_redraw' = os_redraws \cup
          (IF closure(frug_instance, Ev("MainEventsCleared", 0, "None", NoSize), "Ok").redraw
           THEN {OWN_WINDOW} ELSE {})
    /\ phase' = "Redraw"
    /\ UNCHANGED <<batch_events, batches, window_size, last_accepted_size>>

\* Event::RedrawRequested(w), once per window with a pending redraw.
RedrawRequested(w, acquired) ==
    /\ phase = "Redraw"
    /\ w \in pending_redraw
    /\ Handle(Ev("RedrawRequested", w, "None", NoSize), acquired)
    /\ pending_redraw' = pending_redraw \ {w}
    /\ UNCHANGED <<phase, batch_events, batches, window_size, last_accepted_size>>

\* Event::RedrawEventsCleared closes the batch.
RedrawEventsCleared ==
    /\ phase = "Redraw"
    /\ pending_redraw = {}
    /\ Handle(Ev("RedrawEventsCleared", 0, "None", NoSize), "Ok")
    /\ batches' = batches + 1
    /\ phase' = IF control_flow = "Exit" THEN "Destroy" ELSE "NewEvents"
    /\ UNCHANGED <<pending_redraw, batch_events, window_size, last_accepted_size>>

\* Event::LoopDestroyed: the last invocation, after ControlFlow::Exit.
LoopDestroyed ==
    /\ control_flow = "Exit"
    /\ phase # "Done"
    /\ Handle(Ev("LoopDestroyed", 0, "None", NoSize), "Ok")
    /\ phase' = "Done"
    /\ pending_redraw' = {}
    /\ UNCHANGED <<batch_events, batches, window_size, last_accepted_size>>

\* A call of the public method set_background_color between two events.
SetBackgroundColor(color) ==
    /\ phase # "Done"
    /\ frug_instance' = set_background_color(frug_instance, color)
    /\ calls' = << [op |-> "set_background_color", color |-> color] >>
    /\ last_set_color' = color
    /\ UNCHANGED <<control_flow, event, phase, pending_redraw, batch_events, batches,
                   callbacks, events_handled, window_size, last_accepted_size, oom_seen,
                   renders_ok>>

Next ==
    \/ NewEvents
    \/ \E e \in WindowEvents : WindowEvent(e)
    \/ \E os \in SUBSET {OTHER_WINDOW} : MainEventsCleared(os)
    \/ \E w \in WindowIds, a \in AcquireResults : RedrawRequested(w, a)
    \/ RedrawEventsCleared
    \/ LoopDestroyed
    \/ \E c \in Colors : SetBackgroundColor(c)

Spec == Init /\ [][Next]_vars

TypeOK ==
    /\ frug_instance.size \in Sizes
    /\ control_flow \in {"Wait", "Exit"}
    /\ phase \in {"NewEvents", "Events", "Redraw", "Destroy", "Done"}

\* ------------------------------------------------------------ properties
\* The step is an invocation of the closure (not a direct API call).
Handled == events_handled' = events_handled + 1

OwnEvent(e, kind) == e.kind = kind /\ e.window_id = OWN_WINDOW

SameDims(config, s) == config.width = s.width /\ config.height = s.height

\* C1: a resize call with a zero width or height leaves the stored size, the
\* configuration's width and height and the background color as they were and
\* does not reconfigure the surface.
C1_ResizeZeroIsNoOp ==
    [][\A i \in 1..Len(calls') :
          (calls'[i].op = "resize" /\ ~IsPositive(calls'[i].new_size))
          => /\ frug_instance'.size = frug_instance.size
             /\ frug_instance'.config = frug_instance.config
             /\ frug_instance'.background_color = frug_instance.background_color
             /\ frug_instance'.surface.config = frug_instance.surface.config
             /\ ~HasCall(calls', "configure")]_vars

C1_Witness ==
    /\ OwnEvent(event, "WindowEvent")
    /\ event.wevent = "Resized"
    /\ ~IsPositive(event.size)
    /\ calls[1] = [op |-> "resize", new_size |-> event.size]
    /\ window_size # frug_instance.size

\* C2: after a resize call with positive dimensions the stored size and the
\* configuration's width and height equal new_size, the surface was configured
\* once with that configuration, and a second resize with the same new_size
\* leaves the session as it is.
C2_ResizePositive ==
    [][\A i \in 1..Len(calls') :
          (calls'[i].op = "resize" /\ IsPositive(calls'[i].new_size))
          => LET n == calls'[i].new_size
             IN  /\ frug_instance'.size = n
                 /\ SameDims(frug_instance'.config, n)
                 /\ frug_instance'.surface.config = frug_instance'.config
                 /\ CallsOf(calls', "configure")
                       = << [op |-> "configure", config |-> frug_instance'.config] >>
                 /\ resize(frug_instance', n).self = frug_instance']_vars

C2_Witness ==
    /\ OwnEvent(event, "WindowEvent")
    /\ event.wevent = "ScaleFactorChanged"
    /\ IsPositive(event.size)
    /\ calls[1] = [op |-> "resize", new_size |-> event.size]
    /\ frug_instance.size = event.size
    /\ HasCall(calls, "configure")
    /\ events_handled > 2

\* C3: when the render() of a redraw fails with Lost, the closure calls resize
\* exactly once, with the size the session holds, after that render attempt and
\* within the same invocation, hence before any later render attempt; the
\* surface is reconfigured with the unchanged configuration when that size has
\* both dimensions positive.
C3_LostReconfigures ==
    [][(Handled /\ Returned(calls', "Lost"))
          => /\ calls' = << [op |-> "render", result |-> "Lost"],
                            [op |-> "resize", new_size |-> frug_instance.size] >>
                         \o (IF IsPositive(frug_instance.size)
                             THEN << [op |-> "configure", config |-> frug_instance.config] >>
                             ELSE << >>)
                         \o << [op |-> "window_loop"] >>
             /\ frug_instance'.size = frug_instance.size
             /\ frug_instance'.surface.config = frug_instance.config]_vars

C3_Witness ==
    /\ OwnEvent(event, "RedrawRequested")
    /\ Returned(calls, "Lost")
    /\ CallsOf(calls, "resize") = << [op |-> "resize", new_size |-> frug_instance.size] >>
    /\ HasCall(calls, "configure")
    /\ batches >= 1

\* C4: a render() failure of kind OutOfMemory sets ControlFlow::Exit, which
\* stays set, and no render() is called in any later closure invocation.
C4_OutOfMemoryTerminates ==
    [][/\ (Handled /\ Returned(calls', "OutOfMemory")) => control_flow' = "Exit"
       /\ oom_seen => (control_flow' = "Exit" /\ ~HasCall(calls', "render"))
       /\ oom_seen => phase' # "NewEvents"]_vars

C4_Witness ==
    /\ oom_seen
    /\ phase = "Done"
    /\ event.kind = "LoopDestroyed"

\* C5: between batches the user callback has run once per completed batch.
C5_CallbackOncePerBatch ==
    phase = "NewEvents" => callbacks = batches

\* C6: set_background_color stores the color and does nothing else (no
\* configure, submit or present), and every successful render() clears to the
\* color of the latest set_background_color call, or to (0,0,0,1) if there was
\* none.
C6_BackgroundColorRoundTrip ==
    [][/\ \A i \in 1..Len(calls') :
             calls'[i].op = "set_background_color"
             => /\ frug_instance' = [frug_instance EXCEPT !.background_color = calls'[i].color]
                /\ calls' = << calls'[i] >>
       /\ \A i \in 1..Len(calls') :
             calls'[i].op = "submit"
             => /\ Len(calls'[i].buffer) = 1
                /\ calls'[i].buffer[1].clear = last_set_color'
                /\ frug_instance'.queue.submits = frug_instance.queue.submits + 1]_vars

C6_Witness ==
    /\ Returned(calls, "Ok")
    /\ HasCall(calls, "submit")
    /\ last_set_color # InitialBackgroundColor
    /\ CallsOf(calls, "submit")[1].buffer[1].clear = last_set_color
    /\ frug_instance.queue.submits >= 2

\* C7: a render() that acquires its texture submits one command buffer holding
\* one render pass with one indexed draw of 9 indices and presents once; a
\* render() whose acquisition fails submits and presents nothing.  Submitted
\* buffers, presents and successful render() calls are equal in number.
C7_OneSubmitOnePresentPerRender ==
    /\ frug_instance.queue.submits = renders_ok
    /\ frug_instance.surface.presents = renders_ok
    /\ Returned(calls, "Ok")
          => /\ Len(CallsOf(calls, "render")) = 1
             /\ Len(CallsOf(calls, "submit")) = 1
             /\ Len(CallsOf(calls, "present")) = 1
             /\ LET buffer == CallsOf(calls, "submit")[1].buffer
                IN  /\ Len(buffer) = 1
                    /\ Len(buffer[1].draws) = 1
                    /\ buffer[1].draws[1].first_index = 0
                    /\ buffer[1].draws[1].index_count = 9
    /\ (\E r \in SurfaceErrors : Returned(calls, r))
          => (~HasCall(calls, "submit") /\ ~HasCall(calls, "present"))

C7_Witness ==
    /\ renders_ok = 1
    /\ frug_instance.queue.submits = 1
    /\ frug_instance.surface.presents = 1
    /\ Returned(calls, "Timeout")
    /\ batches >= 1

\* C8 as stated: at every present the configuration's width and height equal
\* the window's current physical size.
C8_ConfigMatchesWindow ==
    HasCall(calls, "present") => SameDims(frug_instance.config, window_size)

\* C8 amended: at every present the configuration applied to the surface has
\* the width and height of the window's inner size at construction or, once a
\* Resized or ScaleFactorChanged event of the window has reported a size with
\* both dimensions positive, of the latest such size; it equals the window's
\* current size whenever that size has both dimensions positive.
C8_ConfigMatchesLastAcceptedSize ==
    HasCall(calls, "present")
    => /\ SameDims(frug_instance.config, last_accepted_size)
       /\ frug_instance.surface.config = frug_instance.config
       /\ frug_instance.size = last_accepted_size
       /\ IsPositive(window_size) => SameDims(frug_instance.config, window_size)

C8_Witness ==
    /\ HasCall(calls, "present")
    /\ ~IsPositive(window_size)
    /\ window_size # last_accepted_size
    /\ SameDims(frug_instance.config, last_accepted_size)
    /\ OwnEvent(event, "RedrawRequested")

\* C9: ControlFlow::Exit is only set by a close request of the session's
\* window or by a render() failing with OutOfMemory, and the loop is only
\* destroyed after Exit; every other event leaves the loop waiting, each
\* MainEventsCleared requests a redraw of the session's window and each redraw
\* of that window attempts render().
C9_ExitOnlyOnCloseOrOutOfMemory ==
    [][/\ (control_flow = "Wait" /\ control_flow' = "Exit")
            => \/ (OwnEvent(event', "WindowEvent") /\ event'.wevent = "CloseRequested")
               \/ (OwnEvent(event', "RedrawRequested") /\ Returned(calls', "OutOfMemory"))
       /\ phase' \in {"Destroy", "Done"} => control_flow' = "Exit"
       /\ (Handled /\ control_flow' = "Wait" /\ event'.kind = "RedrawEventsCleared")
            => phase' = "NewEvents"
       /\ (Handled /\ event'.kind = "MainEventsCleared") => OWN_WINDOW \in pending_redraw'
       /\ (Handled /\ OwnEvent(event', "RedrawRequested"))
            => Len(CallsOf(calls', "render")) = 1]_vars

C9_Witness ==
    /\ control_flow = "Wait"
    /\ batches >= 1
    /\ OwnEvent(event, "RedrawRequested")
    /\ Returned(calls, "Outdated")
    /\ renders_ok = 1

\* C10 as stated: the pipeline uses clockwise front-face winding.
C10_PipelineClockwise ==
    frug_instance.render_pipeline.front_face = "Cw"

\* C10 amended: the pipeline has triangle-list topology, back-face culling,
\* counter-clockwise front-face winding, fill polygon mode, no depth/stencil,
\* sample count 1 and blend REPLACE on its one color target.
C10_PipelineConfiguration ==
    LET p == frug_instance.render_pipeline
    IN  /\ p.topology = "TriangleList"
        /\ p.cull_mode = "Back"
        /\ p.front_face = "Ccw"
        /\ p.polygon_mode = "Fill"
        /\ p.depth_stencil = "None"
        /\ p.multisample_count = 1
        /\ Len(p.targets) = 1
        /\ p.targets[1].blend = "REPLACE"

C10_Witness ==
    /\ HasCall(calls, "submit")
    /\ CallsOf(calls, "submit")[1].buffer[1].pipeline = frug_instance.render_pipeline
    /\ frug_instance.render_pipeline.front_face = "Ccw"
====
